---- MODULE Spec2Model ----
(***************************************************************************)
(* Model of the StockEventReport plugin (src/stockeventreport/core.py).    *)
(*                                                                         *)
(* process_event is modelled as a handler invocation that runs in three    *)
(* steps, one per read of shared host data: the lookup of the payload's    *)
(* tracking entry (line 55), the read of the item's latest tracking entry  *)
(* (line 63), and the remainder (lines 68-122), which only reads the       *)
(* settings and the report templates and calls the report engine and the   *)
(* notification sender.  Host calls may raise.  add_report_context is a    *)
(* pure operator, exercised by its own specification.                      *)
(***************************************************************************)
EXTENDS Integers, Sequences, FiniteSets, TLC

VARIABLES
    entries,      \* StockItemTracking rows, in order of creation (pk = index)
    owner,        \* StockItem.owner of each stock item
    settings,     \* the plugin settings store
    procs,        \* the invocations of process_event in flight
    returned,     \* the invocation of process_event that returned last
    history,      \* add_report_context: tracking_info of the model instance
    ctxCall       \* add_report_context: the last call, its inputs and result

vars == <<entries, owner, settings, procs, returned, history, ctxCall>>

----------------------------------------------------------------------------
(* Bounds *)

MaxEntries == 2
MaxHistory == 2

----------------------------------------------------------------------------
(* Host data *)

None == "None"

Owners == {"u1"}
Items == {"item1"}

STOCK_ADD == "STOCK_ADD"
STOCK_REMOVE == "STOCK_REMOVE"

\* The settings the plugin declares.
SETTINGS == {"STOCK_ADD_TEMPLATE", "STOCK_REMOVE_TEMPLATE"}

\* ReportTemplate rows: pk -> row.  "9" is a pk no row has.
ReportTemplates == ("7" :> [name |-> "StockAdded"]) @@ ("8" :> [name |-> "StockRemoved"])

\* The configurations of the settings store: each setting is unset (None),
\* empty, the pk of a template, or a pk no template has.
Configurations ==
    {[STOCK_ADD_TEMPLATE |-> a, STOCK_REMOVE_TEMPLATE |-> r] :
        a \in {None, "7"}, r \in {"", "8", "9"}}

\* The tracking entries the host creates: entries of an item, and an entry
\* whose item reference resolves to nothing.
NewEntries ==
    {[item |-> "item1", tracking_type |-> STOCK_ADD, user |-> "u1"],
     [item |-> "item1", tracking_type |-> STOCK_REMOVE, user |-> "u2"],
     [item |-> "item1", tracking_type |-> STOCK_REMOVE, user |-> None],
     [item |-> "item1", tracking_type |-> "STOCK_MOVE", user |-> "u1"],
     [item |-> None, tracking_type |-> STOCK_ADD, user |-> None]}

\* A payload naming a row that never exists.
MissingId == MaxEntries + 1

\* The payloads that name no row: no 'id' key, or the id of no row.
ForeignPayloads == {[has_id |-> FALSE, id |-> 0], [has_id |-> TRUE, id |-> MissingId]}

\* Python truth value of a setting value / optional reference.
Truthy(v) == v # None /\ v # ""

----------------------------------------------------------------------------
(* Logging *)

Log(p, level, msg, arg) ==
    [p EXCEPT !.log = Append(@, [level |-> level, msg |-> msg, arg |-> arg])]

Return(p) == [p EXCEPT !.pc = "done"]

\* A host call, or the handler's own code, raises exception e.
Raise(p, e) == [p EXCEPT !.exception = e]

\* A mutant: no outermost handler, the exception reaches the dispatcher.
OuterExcept_propagates(p) == [Return(p) EXCEPT !.raised = TRUE]

\* except Exception as e: logger.error(...)   (lines 121-122)
OuterExcept(p) ==
    Return(Log(p, "error", "Error processing stock quantity update event", p.exception))

----------------------------------------------------------------------------
(* Step 1: resolve the stock item of the payload's tracking entry *)

\* StockItemTracking.objects.filter(pk=id).first(): the row's pk, or 0 for None
FilterFirst(rows, id) == IF id \in 1..Len(rows) THEN id ELSE 0

ResolveItem(p, rows, db) ==
    IF ~p.kwargs.has_id THEN OuterExcept(Raise(p, "KeyError"))
    ELSE IF db = "raise" THEN OuterExcept(Raise(p, "DatabaseError"))
    ELSE LET e == FilterFirst(rows, p.kwargs.id) IN
         IF e = 0 THEN OuterExcept(Raise(p, "AttributeError"))
         ELSE IF ~Truthy(rows[e].item)
              THEN Return(Log(p, "warning", "Could not find stock item", ""))
              ELSE Log([p EXCEPT !.stock_item = rows[e].item, !.pc = "latest"],
                       "info", "Processing quantity update for StockItem", rows[e].item)

----------------------------------------------------------------------------
(* Step 2: the item's latest tracking entry *)

TrackingInfo(rows, item) == {i \in 1..Len(rows) : rows[i].item = item}

\* A mutant: order_by('date') instead of order_by('-date').
Latest_oldest(rows, item) ==
    LET S == TrackingInfo(rows, item) IN
    IF S = {} THEN 0
    ELSE CHOOSE i \in S : \A j \in S : rows[i].date <= rows[j].date

\* stock_item.tracking_info.order_by('-date').first(): pk of the row, 0 for None
Latest(rows, item) ==
    LET S == TrackingInfo(rows, item) IN
    IF S = {} THEN 0
    ELSE CHOOSE i \in S : \A j \in S : rows[j].date <= rows[i].date

ReadLatest(p, rows, db) ==
    IF db = "raise" THEN OuterExcept(Raise(p, "DatabaseError"))
    ELSE LET e == Latest(rows, p.stock_item) IN
         IF e = 0 THEN Return(Log(p, "warning", "No tracking entry found", ""))
         ELSE [p EXCEPT !.tracking_entry = e,
                        !.tracking_type = rows[e].tracking_type,
                        !.user = rows[e].user,
                        !.pc = "select"]

----------------------------------------------------------------------------
(* Step 3: select the template, render, notify *)

NoKey == "NoKey"

\* A mutant: the final else branch is missing, other codes fall into REMOVE.
SettingKeyFor_fallthrough(tracking_type) ==
    IF tracking_type = STOCK_ADD THEN "STOCK_ADD_TEMPLATE"
    ELSE "STOCK_REMOVE_TEMPLATE"

\* A mutant: the two settings are swapped.
SettingKeyFor_swapped(tracking_type) ==
    IF tracking_type = STOCK_ADD THEN "STOCK_REMOVE_TEMPLATE"
    ELSE IF tracking_type = STOCK_REMOVE THEN "STOCK_ADD_TEMPLATE"
    ELSE NoKey

\* The if / elif / else on tracking_entry.tracking_type (lines 70-76).
SettingKeyFor(tracking_type) ==
    IF tracking_type = STOCK_ADD THEN "STOCK_ADD_TEMPLATE"
    ELSE IF tracking_type = STOCK_REMOVE THEN "STOCK_REMOVE_TEMPLATE"
    ELSE NoKey

\* A mutant: "if template_id is None" instead of "if not template_id".
NotConfigured_none_only(template_id) == template_id = None

\* if not template_id   (line 78)
NotConfigured(template_id) == ~Truthy(template_id)

\* ReportTemplate.objects.get(pk=template_id) raises DoesNotExist (lines 84-85)
DoesNotExist(template_id) == template_id \notin DOMAIN ReportTemplates

TemplateName(template_id) ==
    IF template_id \in DOMAIN ReportTemplates THEN ReportTemplates[template_id].name
    ELSE None

\* A mutant: the inner handler swallows the failure without logging.
InnerExcept_silent(p, template_id) == Return(p)

\* except Exception as e: logger.error(f"Failed to generate report {name}")
InnerExcept(p, template_id) ==
    Return(Log(p, "error", "Failed to generate report", TemplateName(template_id)))

Range(s) == {s[i] : i \in 1..Len(s)}

\* A mutant: the acting user is appended without the membership test.
BuildTargets_no_dedupe(own, user) ==
    LET t1 == IF Truthy(own) THEN <<own>> ELSE <<>> IN
    IF Truthy(user) THEN Append(t1, user) ELSE t1

\* targets = []; owner appended if any; user appended if any and not in targets
BuildTargets(own, user) ==
    LET t1 == IF Truthy(own) THEN <<own>> ELSE <<>> IN
    IF Truthy(user) /\ user \notin Range(t1) THEN Append(t1, user) ELSE t1

\* targets=targets if targets else None   (line 114)
TargetsArg(targets) ==
    IF targets # <<>> THEN [explicit |-> TRUE, targets |-> targets]
    ELSE [explicit |-> FALSE, targets |-> <<>>]

\* What the host does to the calls of lines 68-120: every call succeeds, or
\* one of them raises (the first failure ends the invocation), or print
\* succeeds with no output (or an output without url).
HostBehaviours == {"ok", "get_setting", "get_template", "print", "no_output", "notify"}

\* Lines 89-120: the inner try.
RenderAndNotify(p, template_id, own, h) ==
    LET p1 == [p EXCEPT !.renders = Append(@, template_id)] IN
    IF h = "print" THEN InnerExcept(Raise(p1, "RenderError"), template_id)
    ELSE IF h = "no_output" THEN Return(p1)
    ELSE LET targets == BuildTargets(own, p1.user)
             p2 == [p1 EXCEPT !.notifications = Append(@, TargetsArg(targets))]
         IN IF h = "notify" THEN InnerExcept(Raise(p2, "NotifyError"), template_id)
            ELSE Return(Log(p2, "info", "Report generated and notification sent", "url"))

\* Lines 68-122.
SelectAndReport(p, cfg, own, h) ==
    LET key == SettingKeyFor(p.tracking_type) IN
    IF key = NoKey
    THEN Return(Log(p, "info", "Tracking type not handled", p.tracking_type))
    ELSE
    LET p1 == [p EXCEPT !.setting_reads = Append(@, key)] IN
    IF h = "get_setting" THEN OuterExcept(Raise(p1, "SettingsError"))
    ELSE
    LET template_id == cfg[key] IN
    IF NotConfigured(template_id)
    THEN Return(Log(p1, "warning", "No template configured for this action type", ""))
    ELSE
    LET p2 == [p1 EXCEPT !.template_lookups = Append(@, template_id)] IN
    IF h = "get_template" THEN OuterExcept(Raise(p2, "DatabaseError"))
    ELSE IF DoesNotExist(template_id)
    THEN Return(Log(Raise(p2, "DoesNotExist"), "error",
                    "Could not find template with ID", template_id))
    ELSE RenderAndNotify(p2, template_id, own, h)

----------------------------------------------------------------------------
(* add_report_context *)

\* An optional number: <<>> is None, <<n>> is the number n.
NoValue == <<>>
Some(n) == <<n>>

\* Python truth value of an optional number (None and 0 are false).
TruthyNumber(o) == o # NoValue /\ o[1] # 0

\* The deltas of a tracking entry: null, or a mapping (possibly empty).
NullDeltas == [null |-> TRUE, map |-> <<>>]
Mapping(m) == [null |-> FALSE, map |-> m]

\* if tracking_entry.deltas   (line 142)
TruthyDeltas(deltas) == ~deltas.null /\ DOMAIN deltas.map # {}

\* tracking_entry.deltas or {}   (line 138)
DeltasOrEmpty(deltas) == IF TruthyDeltas(deltas) THEN deltas.map ELSE <<>>

\* dict.get(key): the value, or None
Get(m, key) == IF key \in DOMAIN m THEN Some(m[key]) ELSE NoValue

\* context[key] = value
SetItem(context, key, value) == (key :> value) @@ context

\* A mutant: the price is multiplied by the quantity delta.
TotalPrice_quantity(m, purchase_price) ==
    IF "quantity" \in DOMAIN m /\ TruthyNumber(purchase_price)
    THEN Some(m["quantity"] * purchase_price[1])
    ELSE Some(0)

\* Lines 149-152.
TotalPrice(m, purchase_price) ==
    IF "added" \in DOMAIN m /\ TruthyNumber(purchase_price)
    THEN Some(m["added"] * purchase_price[1])
    ELSE Some(0)

\* A mutant: the isinstance test is missing.
IsStockItem_any(model_instance) == TRUE

\* isinstance(model_instance, StockItem)   (line 127)
IsStockItem(model_instance) == model_instance.kind = "StockItem"

Username(user) == IF Truthy(user) THEN user ELSE "System"

\* tracking_entry.label(): the label of the tracking type
Label(tracking_type) ==
    IF tracking_type = STOCK_ADD THEN "Stock manually added"
    ELSE IF tracking_type = STOCK_REMOVE THEN "Stock manually removed"
    ELSE "Location changed"

\* Lines 133-139.
TrackingContext(e) ==
    [date |-> e.date, user |-> Username(e.user), type |-> Label(e.tracking_type),
     notes |-> e.notes, deltas |-> DeltasOrEmpty(e.deltas)]

\* Lines 142-155.
DeltaContext(context, m, purchase_price) ==
    LET c1 == SetItem(context, "quantity_change", Get(m, "quantity"))
        c2 == SetItem(c1, "previous_quantity", Get(m, "previous_quantity"))
        c3 == SetItem(c2, "location_change", Get(m, "location"))
        c4 == SetItem(c3, "status_change", Get(m, "status"))
        c5 == SetItem(c4, "total_price", TotalPrice(m, purchase_price))
    IN SetItem(c5, "purchase_price",
               IF TruthyNumber(purchase_price) THEN purchase_price ELSE Some(0))

\* Lines 124-157.
AddReportContext(model_instance, context) ==
    IF ~IsStockItem(model_instance) THEN context
    ELSE LET e == Latest(model_instance.tracking_info, model_instance.pk) IN
         IF e = 0 THEN context
         ELSE LET entry == model_instance.tracking_info[e]
                  c1 == SetItem(context, "tracking", TrackingContext(entry))
              IN IF TruthyDeltas(entry.deltas)
                 THEN DeltaContext(c1, entry.deltas.map, model_instance.purchase_price)
                 ELSE c1

----------------------------------------------------------------------------
(* The state machine of the event handler *)

NewProc(kwargs) ==
    [pc |-> "resolve", kwargs |-> kwargs, stock_item |-> None,
     tracking_entry |-> 0, tracking_type |-> None, user |-> None,
     log |-> <<>>, setting_reads |-> <<>>, template_lookups |-> <<>>,
     renders |-> <<>>, notifications |-> <<>>, exception |-> None, raised |-> FALSE]

NoCall == [called |-> FALSE]

Init ==
    /\ entries = <<>>
    /\ owner \in [Items -> Owners \cup {None}]
    /\ settings \in Configurations
    /\ procs = {}
    /\ returned = NewProc([has_id |-> FALSE, id |-> 0])
    /\ history = <<>>
    /\ ctxCall = NoCall

\* The host creates a tracking entry and dispatches its "created" event.
CreateEntry ==
    /\ Len(entries) < MaxEntries
    /\ \E e \in NewEntries :
         entries' = Append(entries, [item |-> e.item, tracking_type |-> e.tracking_type,
                                     user |-> e.user, date |-> Len(entries) + 1])
    /\ procs' = procs \cup {NewProc([has_id |-> TRUE, id |-> Len(entries) + 1])}
    /\ UNCHANGED <<owner, settings, returned, history, ctxCall>>

\* An event whose payload has no 'id' key, or names no tracking entry, is
\* dispatched and handled: the invocation returns in its first step.
ForeignEvent ==
    /\ \E kwargs \in ForeignPayloads, db \in {"ok", "raise"} :
         /\ (db = "raise" => kwargs.has_id)
         /\ returned' = ResolveItem(NewProc(kwargs), entries, db)
    /\ UNCHANGED <<entries, owner, settings, procs, history, ctxCall>>

\* Invocation p moves to q: it stays in flight, or it has returned.
Step(p, q) ==
    /\ procs' = IF q.pc = "done" THEN procs \ {p} ELSE (procs \ {p}) \cup {q}
    /\ returned' = IF q.pc = "done" THEN q ELSE returned
    /\ UNCHANGED <<entries, owner, settings, history, ctxCall>>

Resolve ==
    \E p \in procs, db \in {"ok", "raise"} :
        /\ p.pc = "resolve"
        /\ Step(p, ResolveItem(p, entries, db))

ReadLatestEntry ==
    \E p \in procs, db \in {"ok", "raise"} :
        /\ p.pc = "latest"
        /\ Step(p, ReadLatest(p, entries, db))

Report ==
    \E p \in procs, h \in HostBehaviours :
        /\ p.pc = "select"
        /\ Step(p, SelectAndReport(p, settings, owner[p.stock_item], h))

Next == CreateEntry \/ ForeignEvent \/ Resolve \/ ReadLatestEntry \/ Report

Spec == Init /\ [][Next]_vars

----------------------------------------------------------------------------
(* The state machine of the report-context hook *)

\* The values the deltas of the recorded entries are drawn from.
DeltaSample == [quantity |-> 5, previous_quantity |-> 2, location |-> 4,
                status |-> 10, added |-> 3]
DeltaKeySets == SUBSET {"quantity", "added"} \cup {DOMAIN DeltaSample}
DeltaInputs ==
    {NullDeltas} \cup {Mapping([k \in S |-> DeltaSample[k]]) : S \in DeltaKeySets}

ActorInputs == {[tracking_type |-> STOCK_ADD, user |-> "u1"],
                [tracking_type |-> STOCK_REMOVE, user |-> None]}
PriceInputs == {NoValue, Some(0), Some(10)}
ContextInputs == {<<>>, [total_price |-> Some(99)], [page |-> Some(1)]}
InstanceKinds == {"StockItem", "Part"}

InitContext ==
    /\ entries = <<>>
    /\ owner = [i \in Items |-> None]
    /\ settings = [STOCK_ADD_TEMPLATE |-> None, STOCK_REMOVE_TEMPLATE |-> None]
    /\ procs = {}
    /\ returned = NewProc([has_id |-> FALSE, id |-> 0])
    /\ history = <<>>
    /\ ctxCall = NoCall

\* The host records a tracking entry of the item.
RecordTracking ==
    /\ Len(history) < MaxHistory
    /\ \E by \in ActorInputs, deltas \in DeltaInputs :
         history' = Append(history,
                           [item |-> "item1", tracking_type |-> by.tracking_type,
                            user |-> by.user, date |-> Len(history) + 1,
                            notes |-> "", deltas |-> deltas])
    /\ UNCHANGED <<entries, owner, settings, procs, returned, ctxCall>>

\* The host renders a report and calls the hook.
CallAddReportContext ==
    /\ \E kind \in InstanceKinds, price \in PriceInputs, context \in ContextInputs :
         LET model_instance == [kind |-> kind, pk |-> "item1", purchase_price |-> price,
                                tracking_info |-> history]
         IN ctxCall' = [called |-> TRUE, model_instance |-> model_instance,
                        context |-> context,
                        result |-> AddReportContext(model_instance, context)]
    /\ UNCHANGED <<entries, owner, settings, procs, returned, history>>

NextContext == RecordTracking \/ CallAddReportContext

SpecContext == InitContext /\ [][NextContext]_vars

----------------------------------------------------------------------------
(* Properties of process_event, stated on the invocation that returned last *)

Done == returned.pc = "done"

LastLog == returned.log[Len(returned.log)]
LogLevels == {returned.log[i].level : i \in 1..Len(returned.log)}

\* The handler read the item's latest tracking entry.
ReadEntry == returned.tracking_entry # 0
LatestRead == entries[returned.tracking_entry]

\* The setting the component design assigns to a tracking type.
SettingOf(tracking_type) ==
    IF tracking_type = STOCK_ADD THEN "STOCK_ADD_TEMPLATE" ELSE "STOCK_REMOVE_TEMPLATE"

NoReport == returned.renders = <<>> /\ returned.notifications = <<>>

\* C1: process_event always returns normally to the dispatcher: no exception
\* propagates, whatever the payload (no 'id' key, the id of no tracking entry)
\* and whichever host call fails, and every such failure leaves an
\* error-level log entry.
C1_NothingEscapes ==
    Done =>
        /\ ~returned.raised
        /\ returned.kwargs \in ForeignPayloads
               => returned.exception # None
        /\ returned.exception # None
               => returned.log # <<>> /\ LastLog.level = "error"

C1_Witness ==
    /\ Done
    /\ returned.exception = "NotifyError"
    /\ returned.notifications # <<>>
    /\ LastLog.level = "error"

\* C2: when the latest tracking entry has a type other than STOCK_ADD and
\* STOCK_REMOVE, the invocation reads no setting, looks up no template,
\* renders nothing, notifies nobody, and exits after an informational log
\* entry, with no warning and no error logged.
C2_OtherTypesIgnored ==
    (Done /\ ReadEntry /\ LatestRead.tracking_type \notin {STOCK_ADD, STOCK_REMOVE}) =>
        /\ returned.setting_reads = <<>>
        /\ returned.template_lookups = <<>>
        /\ NoReport
        /\ LastLog.level = "info"
        /\ LastLog.msg = "Tracking type not handled"
        /\ LogLevels = {"info"}

C2_Witness ==
    /\ Done
    /\ ReadEntry
    /\ LatestRead.tracking_type = "STOCK_MOVE"
    /\ LastLog.msg = "Tracking type not handled"
    /\ settings.STOCK_ADD_TEMPLATE = "7"
    /\ settings.STOCK_REMOVE_TEMPLATE = "8"

\* C3: a render call happens only when the setting selected by the latest
\* entry's type holds a non-empty id of an existing template, and it renders
\* that template.  With the setting unset or empty there is no render and no
\* notification and (the settings read succeeding) a warning is logged; with
\* an id that no template has there is no render, no notification, and an
\* error is logged.
C3_RenderNeedsTemplate ==
    (Done /\ ReadEntry /\ LatestRead.tracking_type \in {STOCK_ADD, STOCK_REMOVE}) =>
        LET id == settings[SettingOf(LatestRead.tracking_type)] IN
        /\ returned.renders # <<>> =>
              /\ id \notin {None, ""}
              /\ id \in DOMAIN ReportTemplates
              /\ returned.renders = <<id>>
        /\ id \in {None, ""} =>
              /\ NoReport
              /\ returned.exception # "SettingsError" => LastLog.level = "warning"
        /\ (id \notin {None, ""} /\ id \notin DOMAIN ReportTemplates) =>
              /\ NoReport
              /\ LastLog.level = "error"

C3_Witness ==
    /\ Done
    /\ ReadEntry
    /\ LatestRead.tracking_type = STOCK_REMOVE
    /\ settings.STOCK_REMOVE_TEMPLATE = "9"
    /\ returned.template_lookups = <<"9">>
    /\ returned.exception = "DoesNotExist"

\* C4 as claimed: with at least one of the two settings unset, an event whose
\* latest entry is of type ADD or REMOVE renders nothing and notifies nobody.
C4_InertUntilBothSet ==
    (/\ Done
     /\ ReadEntry
     /\ LatestRead.tracking_type \in {STOCK_ADD, STOCK_REMOVE}
     /\ \E k \in SETTINGS : settings[k] \in {None, ""})
    => NoReport

\* C4 amended: with the setting of the latest entry's own type unset, the
\* invocation renders nothing and notifies nobody, whatever the other setting
\* holds.
C4_InertUntilOwnSettingSet ==
    (/\ Done
     /\ ReadEntry
     /\ LatestRead.tracking_type \in {STOCK_ADD, STOCK_REMOVE}
     /\ settings[SettingOf(LatestRead.tracking_type)] \in {None, ""})
    => NoReport

C4_Witness ==
    /\ Done
    /\ ReadEntry
    /\ LatestRead.tracking_type = STOCK_ADD
    /\ settings.STOCK_ADD_TEMPLATE = None
    /\ settings.STOCK_REMOVE_TEMPLATE = "8"
    /\ returned.setting_reads = <<"STOCK_ADD_TEMPLATE">>
    /\ NoReport

\* C5: when the render call raises, no notification is sent, the failure is
\* caught, an error naming the template is logged, and nothing propagates.
C5_RenderFailure ==
    (Done /\ returned.exception = "RenderError") =>
        /\ Len(returned.renders) = 1
        /\ returned.notifications = <<>>
        /\ ~returned.raised
        /\ LastLog.level = "error"
        /\ LastLog.msg = "Failed to generate report"
        /\ LastLog.arg = ReportTemplates[returned.renders[1]].name

C5_Witness ==
    /\ Done
    /\ returned.exception = "RenderError"
    /\ returned.renders = <<"7">>
    /\ LastLog.arg = "StockAdded"

\* C6: the targets of a notification are the duplicate-free set made of the
\* item's owner (if any) and the latest entry's acting user (if any); when
\* neither exists the 'no explicit targets' sentinel is passed, never an
\* empty list.
C6_Targets ==
    (Done /\ returned.notifications # <<>>) =>
        LET n == returned.notifications[1]
            expected == {owner[returned.stock_item], LatestRead.user} \ {None}
        IN /\ Len(returned.notifications) = 1
           /\ IF expected = {}
              THEN ~n.explicit
              ELSE /\ n.explicit
                   /\ {n.targets[i] : i \in 1..Len(n.targets)} = expected
                   /\ Len(n.targets) = Cardinality(expected)

C6_Witness ==
    /\ Done
    /\ returned.notifications # <<>>
    /\ owner[returned.stock_item] = "u1"
    /\ LatestRead.user = "u1"
    /\ returned.notifications[1].targets = <<"u1">>

\* C7 as claimed: when the payload's id resolves to no tracking entry, or the
\* entry has no stock item, the invocation ends with a warning-level log
\* entry and no error-level one, no render, no notification, and nothing
\* propagated (the lookup itself not failing).
C7_MissingDataWarns ==
    (/\ Done
     /\ returned.kwargs.has_id
     /\ returned.exception # "DatabaseError"
     /\ \/ returned.kwargs.id \notin 1..Len(entries)
        \/ /\ returned.kwargs.id \in 1..Len(entries)
           /\ entries[returned.kwargs.id].item = None)
    => /\ LastLog.level = "warning"
       /\ "error" \notin LogLevels
       /\ NoReport
       /\ ~returned.raised

\* C10: the handler reads the item's entry of greatest date at the moment of
\* the read, whichever entry the payload names, and takes the template and
\* the acting user from it; an invocation renders at most one report, the
\* one configured for that entry's type, and sends at most one notification.
C10_Step(p, q) ==
    /\ (p.pc = "latest" /\ q.pc = "select") =>
          LET S == {i \in 1..Len(entries) : entries[i].item = p.stock_item} IN
          /\ q.tracking_entry \in S
          /\ \A j \in S : entries[j].date <= entries[q.tracking_entry].date
          /\ q.tracking_type = entries[q.tracking_entry].tracking_type
          /\ q.user = entries[q.tracking_entry].user
    /\ (p.pc = "select" /\ q.pc = "done") =>
          /\ Len(q.renders) <= 1
          /\ Len(q.notifications) <= 1
          /\ q.renders # <<>> =>
                q.renders = <<settings[SettingOf(entries[p.tracking_entry].tracking_type)]>>

C10_LatestStateRead ==
    [][\A p \in procs : \A q \in procs' \cup {returned'} :
          (p \notin procs' /\ q.kwargs = p.kwargs /\ q \notin procs) => C10_Step(p, q)]_vars

\* The ADD entry and then the REMOVE entry exist before either handler reads:
\* the invocation for the ADD entry has rendered the REMOVE template and the
\* invocation for the REMOVE entry is about to.
C10_Witness ==
    /\ Len(entries) = 2
    /\ entries[1].item = "item1" /\ entries[1].tracking_type = STOCK_ADD
    /\ entries[2].item = "item1" /\ entries[2].tracking_type = STOCK_REMOVE
    /\ settings = [STOCK_ADD_TEMPLATE |-> "7", STOCK_REMOVE_TEMPLATE |-> "8"]
    /\ Done
    /\ returned.kwargs = [has_id |-> TRUE, id |-> 1]
    /\ returned.tracking_entry = 2
    /\ returned.renders = <<"8">>
    /\ \E q \in procs : /\ q.kwargs = [has_id |-> TRUE, id |-> 2]
                        /\ q.pc = "select"
                        /\ q.tracking_type = STOCK_REMOVE

----------------------------------------------------------------------------
(* Properties of add_report_context, stated on the last call *)

Row(i) == ctxCall.model_instance.tracking_info[i]

\* The model instance is a stock item with at least one tracking entry.
HasTracking ==
    /\ ctxCall.called
    /\ ctxCall.model_instance.kind = "StockItem"
    /\ ctxCall.model_instance.tracking_info # <<>>

\* The entry of greatest date of the instance.
NewestRow ==
    LET n == Len(ctxCall.model_instance.tracking_info) IN
    Row(CHOOSE i \in 1..n : \A j \in 1..n : Row(j).date <= Row(i).date)

\* deltas['added'] times the purchase price when both exist, otherwise 0.
ExpectedTotal ==
    LET d == NewestRow.deltas
        price == ctxCall.model_instance.purchase_price
    IN IF ~d.null /\ "added" \in DOMAIN d.map /\ price # NoValue
       THEN Some(d.map["added"] * price[1])
       ELSE Some(0)

SameAt(a, b, key) ==
    /\ key \in DOMAIN a <=> key \in DOMAIN b
    /\ key \in DOMAIN a => a[key] = b[key]

\* C8 as claimed: on a stock item with a latest tracking entry, total_price
\* is deltas['added'] times the purchase price when both exist and 0 in every
\* other case, an empty or null deltas mapping included.
C8_TotalPriceAlways ==
    HasTracking =>
        /\ "total_price" \in DOMAIN ctxCall.result
        /\ ctxCall.result["total_price"] = ExpectedTotal

\* C8 amended: that holds when the deltas mapping is non-empty; with an empty
\* or null deltas mapping total_price is not set, the context keeps what it
\* had.
C8_TotalPrice ==
    HasTracking =>
        IF ~NewestRow.deltas.null /\ DOMAIN NewestRow.deltas.map # {}
        THEN /\ "total_price" \in DOMAIN ctxCall.result
             /\ ctxCall.result["total_price"] = ExpectedTotal
        ELSE SameAt(ctxCall.result, ctxCall.context, "total_price")

C8_Witness ==
    /\ HasTracking
    /\ NewestRow.deltas = Mapping([quantity |-> 5, added |-> 3])
    /\ ctxCall.model_instance.purchase_price = Some(10)
    /\ ctxCall.result["total_price"] = Some(30)

\* C9: the context is returned unchanged (same keys, same values) when the
\* model instance is not a stock item, and when it is a stock item without
\* tracking entries.
C9_Passthrough ==
    (/\ ctxCall.called
     /\ \/ ctxCall.model_instance.kind # "StockItem"
        \/ ctxCall.model_instance.tracking_info = <<>>)
    => /\ DOMAIN ctxCall.result = DOMAIN ctxCall.context
       /\ \A key \in DOMAIN ctxCall.context : ctxCall.result[key] = ctxCall.context[key]

C9_Witness ==
    /\ ctxCall.called
    /\ ctxCall.model_instance.kind = "Part"
    /\ ctxCall.model_instance.tracking_info # <<>>
    /\ ctxCall.context = [page |-> Some(1)]
    /\ ctxCall.result = [page |-> Some(1)]

====
